---- MODULE Spec2Model ----
(***************************************************************************)
(* Model of weather_etl.py: the retry decorator, WeatherExtractor's        *)
(* fetch / extract / upsert pipeline and the two ETL passes of start().    *)
(* The weather API and the MySQL table are the environment: the API        *)
(* answers each HTTP attempt with a payload or an exception, the table     *)
(* keeps the rows and enforces UNIQUE KEY (date, location, type).          *)
(***************************************************************************)
EXTENDS Integers, Sequences, FiniteSets, TLC

\* ------------------------------------------------------------ bounds
\* Units of work (over the whole behaviour) in which the environment may
\* inject faults: failing HTTP attempts, malformed payloads, MySQL errors.
MaxFaultyUnits == 1

\* Midnights that may pass while a run is in progress.
MaxTicks == 1

\* ------------------------------------------------- program constants
MaxAttempts  == 3      \* for attempt in range(1, 4)
InitialDelay == 2      \* delay = 2
ForecastDays == 3      \* "days": 3
HistoryDays  == 3      \* for i in range(1, 4)

\* secrets.ini: [weather] cities, split on ',' and stripped
Cities == <<"Paris", "Pune">>

\* ------------------------------------------------------ calendar dates
\* A datetime.date is its number of days since 1970-01-01; its '%Y-%m-%d'
\* text is the civil date [y, m, d].
\* The number of days of a civil date (date(y, m, d)).
DaysFromCivil(y, m, d) ==
  LET yy  == IF m <= 2 THEN y - 1 ELSE y
      era == yy \div 400
      yoe == yy - era * 400
      mp  == IF m > 2 THEN m - 3 ELSE m + 9
      doy == (153 * mp + 2) \div 5 + d - 1
      doe == yoe * 365 + yoe \div 4 - yoe \div 100 + doy
  IN era * 146097 + doe - 719468

\* Variant: the month printed from tm_mon (0-based)
StrftimeZeroBasedMonth(n) ==
  LET z   == n + 719468
      era == z \div 146097
      doe == z - era * 146097
      yoe == (doe - doe \div 1460 + doe \div 36524 - doe \div 146096) \div 365
      doy == doe - (365 * yoe + yoe \div 4 - yoe \div 100)
      mp  == (5 * doy + 2) \div 153
      mm  == IF mp < 10 THEN mp + 3 ELSE mp - 9
  IN [y |-> yoe + era * 400 + (IF mm <= 2 THEN 1 ELSE 0),
      m |-> mm - 1,
      d |-> doy - (153 * mp + 2) \div 5 + 1]

\* date.strftime('%Y-%m-%d'): the civil date of a day number.
Strftime(n) ==
  LET z   == n + 719468
      era == z \div 146097
      doe == z - era * 146097
      yoe == (doe - doe \div 1460 + doe \div 36524 - doe \div 146096) \div 365
      doy == doe - (365 * yoe + yoe \div 4 - yoe \div 100)
      mp  == (5 * doy + 2) \div 153
      mm  == IF mp < 10 THEN mp + 3 ELSE mp - 9
  IN [y |-> yoe + era * 400 + (IF mm <= 2 THEN 1 ELSE 0),
      m |-> mm,
      d |-> doy - (153 * mp + 2) \div 5 + 1]

\* The URL field of a request that names no date.
NoDate == [y |-> 0, m |-> 0, d |-> 0]

\* The calendar date on which the first process starts.
StartDate == DaysFromCivil(2024, 5, 10)

\* Start dates whose trailing window crosses a month end, a leap day or a
\* year end, and one that does not.
StartDates ==
  {DaysFromCivil(2024, 5, 10), DaysFromCivil(2024, 3, 2), DaysFromCivil(2024, 1, 2)}

\* except (ConnectTimeout, HTTPError, ReadTimeout, Timeout, ConnectionError)
Retryable == {"ConnectTimeout", "HTTPError", "ReadTimeout", "Timeout", "ConnectionError"}

\* The transport-level members of the tuple (everything but a bad status).
TransportErrors == Retryable \ {"HTTPError"}

\* What one execution of fetch_data's body can raise: requests.get a
\* transport error, raise_for_status an HTTPError, response.json() a
\* JSONDecodeError (a RequestException outside the except tuple).
Raisable == {"ConnectionError", "ReadTimeout", "HTTPError", "JSONDecodeError"}

\* ------------------------------------------------- the API's answers
\* What the API reports during one run: the readings, the country string
\* and how much of current.air_quality.co the payload carries.
Worlds ==
  { [mintemp |-> 1, maxtemp |-> 5, hum |-> 40, country |-> "France",
     aq |-> "co", co |-> "0.7"],
    [mintemp |-> 2, maxtemp |-> 6, hum |-> 50, country |-> "FR",
     aq |-> "nocurrent", co |-> "0.0"] }

\* How much of current.air_quality.co a body can carry.
AqLevels == {"co", "noco", "noaq", "nocurrent"}

\* The answers of the API that differ in the air-quality block only.
AqWorlds ==
  {[mintemp |-> 1, maxtemp |-> 5, hum |-> 40, country |-> "France",
    aq |-> a, co |-> "0.7"] : a \in AqLevels}

\* Shapes of a 200 response body: well formed, or missing a structural key.
Shapes ==
  {[kind |-> "good", k |-> 0], [kind |-> "nolocation", k |-> 0],
   [kind |-> "nodays", k |-> 0]}
  \cup {[kind |-> "badday", k |-> k] : k \in 1..ForecastDays}

NoneData == [isNone |-> TRUE]

VARIABLES
  pc,          \* position of the process
  run,         \* "first" or "second" invocation of the script
  world,       \* what the API reports during this run
  clock,       \* the current calendar date
  connOpen,    \* self.conn / self.cursor are open
  store,       \* the rows of weather_records, in insertion order
  pass,        \* "forecast" or "history"
  i,           \* run_history_etl's i (0 during the forecast pass)
  ci,          \* index of the city in self.cities
  today,       \* run_history_etl's today (0 before it is computed)
  url,         \* the URL of the current unit
  attempt,     \* wrapper's attempt
  delay,       \* wrapper's delay
  outcomes,    \* what each attempt of the current call did
  slept,       \* the time.sleep() calls of the current call
  data,        \* what fetch_data returned
  k,           \* index of the day extract_and_write is at
  written,     \* rows executed and committed for the current unit
  report,      \* insert_record's last log line: "inserted" / "updated" / "error"
  fetched,     \* URLs handed to fetch_data in this run
  results,     \* outcome of each finished unit of this run: "absent", "failed",
               \* "skipped" (a record met a MySQL error) or "ok"
  exc,         \* the exception in flight or that ended the run ("none")
  unitFaulty,  \* the environment has injected a fault into this unit
  faultyUnits, \* number of units with injected faults
  startDate,   \* the calendar date when this run's start() was entered
  ticks,       \* midnights that passed while a run was in progress
  log,         \* what wrapper has logged during the current call
  dberrs,      \* MySQL errors insert_record caught for the current unit
  partial      \* rows committed in this run by units whose transform then failed

vars == <<pc, run, world, clock, connOpen, store, pass, i, ci, today, url,
          attempt, delay, outcomes, slept, data, k, written, report,
          fetched, results, exc, unitFaulty, faultyUnits, startDate, ticks,
          log, dberrs, partial>>

\* ------------------------------------------------------- UrlBuilder
build_forecast_url(city) ==
  [endpoint |-> "forecast.json", q |-> city, days |-> ForecastDays,
   aqi |-> "yes", alerts |-> "no", dt |-> NoDate]

build_history_url(city, date_str) ==
  [endpoint |-> "history.json", q |-> city, days |-> 0,
   aqi |-> "", alerts |-> "", dt |-> date_str]

\* Variant: timedelta(days=i - 1), the window starting today
HistoryDateFromToday(t, n) == Strftime(t - (n - 1))

\* (today - timedelta(days=n)).strftime('%Y-%m-%d')
HistoryDate(t, n) == Strftime(t - n)

\* --------------------------------------------------- the API's body
\* The dates of the day blocks the API answers a URL with: the forecast
\* window from the current date on, or the one day asked for.
DayDates(u, now) ==
  IF u.endpoint = "forecast.json"
  THEN [n \in 1..u.days |-> Strftime(now + (n - 1))]
  ELSE <<u.dt>>

\* The JSON body of a 200 response: has* tell which keys are present.
Payload(w, u, now, sh) ==
  [isNone      |-> FALSE,
   hasForecast |-> sh.kind # "nodays",
   hasLocation |-> sh.kind # "nolocation",
   name        |-> u.q,
   country     |-> w.country,
   days        |-> [n \in 1..Len(DayDates(u, now)) |->
                     [date        |-> DayDates(u, now)[n],
                      hasDay      |-> ~(sh.kind = "badday" /\ sh.k = n),
                      mintemp_c   |-> w.mintemp,
                      maxtemp_c   |-> w.maxtemp,
                      avghumidity |-> w.hum]],
   aq          |-> w.aq,
   co          |-> w.co]

\* ------------------------------------------------- RecordTransformer
\* mode.upper()
Upper(mode) == IF mode = "forecast" THEN "FORECAST" ELSE "HISTORY"

\* Variant: the last .get('co') without a default
AirQualityNoDefault(d) == IF d.aq = "co" THEN d.co ELSE "None"

\* data.get('current', {}).get('air_quality', {}).get('co', 'N/A')
AirQuality(d) == IF d.aq = "co" THEN d.co ELSE "N/A"

\* Variant: the location block is read with .get() and a default
RowBuildableLenient(d, n) == d.days[n].hasDay

\* The subscripts of the loop body raise no KeyError for day n.
RowBuildable(d, n) == d.days[n].hasDay /\ d.hasLocation

\* The row dict built for day n of the payload.
BuildRow(d, n, mode) ==
  [date        |-> d.days[n].date,
   location    |-> d.name,
   country     |-> d.country,
   min_temp    |-> d.days[n].mintemp_c,
   max_temp    |-> d.days[n].maxtemp_c,
   humidity    |-> d.days[n].avghumidity,
   air_quality |-> AirQuality(d),
   type        |-> Upper(mode)]

\* ------------------------------------------------------- UpsertWriter
\* Variant: UNIQUE KEY unique_entry (date, location)
KeyWithoutType(r) == <<r.date, r.location>>

\* UNIQUE KEY unique_entry (date, location, type)
Key(r) == <<r.date, r.location, r.type>>

Duplicates(s, r) == {n \in DOMAIN s : Key(s[n]) = Key(r)}

\* Variant: the update list also names country
UpdateRowAllColumns(old, r) == r

\* ON DUPLICATE KEY UPDATE min_temp = VALUES(min_temp), ...
UpdateRow(old, r) ==
  [old EXCEPT !.min_temp = r.min_temp, !.max_temp = r.max_temp,
              !.humidity = r.humidity, !.air_quality = r.air_quality]

\* Variant: a plain INSERT into a table without the unique key
ExecutePlainInsert(s, r) == Append(s, r)

\* INSERT INTO weather_records ... ON DUPLICATE KEY UPDATE ...; commit
Execute(s, r) ==
  IF Duplicates(s, r) = {}
  THEN Append(s, r)
  ELSE [n \in DOMAIN s |-> IF Key(s[n]) = Key(r) THEN UpdateRow(s[n], r) ELSE s[n]]

\* cursor.rowcount after the statement: 1 for a new row, 2 for a row the
\* update changed, 0 for a row the update left as it was.
RowCount(s, r) ==
  IF Duplicates(s, r) = {} THEN 1
  ELSE IF Execute(s, r) = s THEN 0 ELSE 2

\* Variant: if self.cursor.rowcount <= 1
ReportAtMostOne(rowcount) == IF rowcount <= 1 THEN "inserted" ELSE "updated"

\* if self.cursor.rowcount == 1: "Successfully wrote" else "Updated existing"
Report(rowcount) == IF rowcount = 1 THEN "inserted" ELSE "updated"

\* --------------------------------------------------- RetryingFetcher
\* Variant: except Exception
IsCaughtAny(e) == e = e

\* Variant: HTTPError left out of the except tuple
IsCaughtTransport(e) == e \in TransportErrors

\* except (ConnectTimeout, HTTPError, ReadTimeout, Timeout, ConnectionError)
IsCaught(e) == e \in Retryable

\* Variant: range(1, 5)
HasNextAttemptOffByOne(a) == a <= MaxAttempts

\* for attempt in range(1, 4): another iteration follows this one
HasNextAttempt(a) == a < MaxAttempts

\* Variant: the backoff is never doubled
NextDelayConstant(d) == d

\* delay *= 2
NextDelay(d) == d * 2

\* Variant: the warning is logged after delay *= 2
RetryEventAfterDoubling(a, e, d) ==
  [level |-> "warning", attempt |-> a, cause |-> e, delay |-> d * 2]

\* logging.warning(f"[Retry {attempt}/3] ... failed with: {e}. Retrying in {delay} seconds...")
RetryEvent(a, e, d) ==
  [level |-> "warning", attempt |-> a, cause |-> e, delay |-> d]

\* logging.error(f"All retries failed for {func.__name__}")
TerminalEvent ==
  [level |-> "error", attempt |-> 0, cause |-> "All retries failed", delay |-> 0]

\* ------------------------------------------------------- environment
\* The environment may inject a fault into the current unit.
FaultAllowed == unitFaulty \/ faultyUnits < MaxFaultyUnits

MarkFault ==
  /\ unitFaulty' = TRUE
  /\ faultyUnits' = IF unitFaulty THEN faultyUnits ELSE faultyUnits + 1

NoFault == UNCHANGED <<unitFaulty, faultyUnits>>

\* ------------------------------------------------------ EtlOrchestrator
\* The mode the current pass hands to extract_and_write.
Mode == pass

\* Variant: date.today() read again for every history URL
UnitUrlCurrentDate ==
  IF pass = "forecast"
  THEN build_forecast_url(Cities[ci])
  ELSE build_history_url(Cities[ci], HistoryDate(clock, i))

\* url = self.build_forecast_url(city) / self.build_history_url(city, history_date)
UnitUrl ==
  IF pass = "forecast"
  THEN build_forecast_url(Cities[ci])
  ELSE build_history_url(Cities[ci], HistoryDate(today, i))

\* Variant: run_history_etl with its loops nested the other way round
\* (for city ... for i ...).
AdvanceCityMajor ==
  IF pass = "forecast"
  THEN IF ci < Len(Cities)
       THEN /\ ci' = ci + 1
            /\ pc' = "loop"
            /\ UNCHANGED <<pass, i, today>>
       ELSE /\ pass' = "history"
            /\ i' = 1
            /\ ci' = 1
            /\ today' = clock
            /\ pc' = "loop"
  ELSE IF i < HistoryDays
  THEN /\ i' = i + 1
       /\ pc' = "loop"
       /\ UNCHANGED <<pass, ci, today>>
  ELSE IF ci < Len(Cities)
  THEN /\ ci' = ci + 1
       /\ i' = 1
       /\ pc' = "loop"
       /\ UNCHANGED <<pass, today>>
  ELSE /\ pc' = "finally"
       /\ UNCHANGED <<pass, i, ci, today>>

\* The loops of run_forecast_etl, run_history_etl and start move on to the
\* next city, the next day, the history pass (today = date.today()) or the
\* finally clause.
Advance ==
  IF ci < Len(Cities)
  THEN /\ ci' = ci + 1
       /\ pc' = "loop"
       /\ UNCHANGED <<pass, i, today>>
  ELSE IF pass = "forecast"
  THEN /\ pass' = "history"
       /\ i' = 1
       /\ ci' = 1
       /\ today' = clock
       /\ pc' = "loop"
  ELSE IF i < HistoryDays
  THEN /\ i' = i + 1
       /\ ci' = 1
       /\ pc' = "loop"
       /\ UNCHANGED <<pass, today>>
  ELSE /\ pc' = "finally"
       /\ UNCHANGED <<pass, i, ci, today>>

\* The current unit is over with the given outcome.
FinishUnit(status) ==
  /\ results' = Append(results, status)
  /\ Advance

\* for city in self.cities: url = ...; logging.info; self.fetch_data(url)
\* enters wrapper: delay = 2, attempt = 1.
BeginUnit ==
  /\ pc = "loop"
  /\ url' = UnitUrl
  /\ fetched' = Append(fetched, UnitUrl)
  /\ attempt' = 1
  /\ delay' = InitialDelay
  /\ outcomes' = <<>>
  /\ slept' = <<>>
  /\ data' = NoneData
  /\ k' = 0
  /\ written' = <<>>
  /\ unitFaulty' = FALSE
  /\ log' = <<>>
  /\ dberrs' = 0
  /\ pc' = "fetch"
  /\ UNCHANGED <<run, world, clock, connOpen, store, pass, i, ci, today,
                 report, results, exc, faultyUnits, startDate, ticks, partial>>

\* One iteration of wrapper's loop in which func returns response.json().
AttemptOk ==
  /\ pc = "fetch"
  /\ \E sh \in Shapes :
       /\ sh.k <= Len(DayDates(url, clock))
       /\ IF sh.kind = "good" THEN NoFault ELSE FaultAllowed /\ MarkFault
       /\ data' = Payload(world, url, clock, sh)
  /\ outcomes' = Append(outcomes, "ok")
  /\ pc' = "returned"
  /\ UNCHANGED <<run, world, clock, connOpen, store, pass, i, ci, today, url,
                 attempt, delay, slept, k, written, report, fetched, results,
                 exc, startDate, ticks, log, dberrs, partial>>

\* One iteration in which func raises an exception of the except tuple:
\* warning, time.sleep(delay), delay *= 2; after the last iteration
\* logging.error and return None.
AttemptCaught ==
  /\ pc = "fetch"
  /\ FaultAllowed /\ MarkFault
  /\ \E e \in Raisable :
       /\ IsCaught(e)
       /\ outcomes' = Append(outcomes, e)
       /\ log' = IF HasNextAttempt(attempt)
                 THEN Append(log, RetryEvent(attempt, e, delay))
                 ELSE log \o <<RetryEvent(attempt, e, delay), TerminalEvent>>
  /\ slept' = Append(slept, delay)
  /\ delay' = NextDelay(delay)
  /\ IF HasNextAttempt(attempt)
     THEN /\ attempt' = attempt + 1
          /\ pc' = "fetch"
     ELSE /\ attempt' = attempt
          /\ pc' = "returned"
  /\ UNCHANGED <<run, world, clock, connOpen, store, pass, i, ci, today, url,
                 data, k, written, report, fetched, results, exc, startDate,
                 ticks, dberrs, partial>>

\* One iteration in which func raises an exception outside the except
\* tuple: it leaves wrapper, the pass and start's try block.
AttemptRaise ==
  /\ pc = "fetch"
  /\ FaultAllowed /\ MarkFault
  /\ \E e \in Raisable :
       /\ ~IsCaught(e)
       /\ outcomes' = Append(outcomes, e)
       /\ exc' = e
  /\ pc' = "unwind"
  /\ UNCHANGED <<run, world, clock, connOpen, store, pass, i, ci, today, url,
                 attempt, delay, slept, data, k, written, report, fetched,
                 results, startDate, ticks, log, dberrs, partial>>

\* if data: self.extract_and_write(data, mode=...)
Dispatch ==
  /\ pc = "returned"
  /\ outcomes' = <<>>
  /\ slept' = <<>>
  /\ log' = <<>>
  /\ attempt' = 0
  /\ delay' = 0
  /\ IF data.isNone
     THEN /\ FinishUnit("absent")
          /\ k' = k
     ELSE /\ pc' = "extract"
          /\ k' = 1
          /\ UNCHANGED <<results, pass, i, ci, today>>
  /\ UNCHANGED <<run, world, clock, connOpen, store, url, data, written,
                 report, fetched, exc, unitFaulty, faultyUnits, startDate,
                 ticks, dberrs, partial>>

\* A row is none of the rows of a sequence.
NotIn(r, s) == \A x \in DOMAIN s : Key(r) # Key(s[x])

\* Variant: one commit after the loop instead of one per record; the rows
\* executed before the failure are never committed.
ExtractFailRollback ==
  /\ pc = "extract"
  /\ \/ ~data.hasForecast
     \/ /\ k <= Len(data.days)
        /\ ~RowBuildable(data, k)
  /\ FinishUnit("failed")
  /\ partial' = partial \o written
  /\ store' = SelectSeq(store, LAMBDA r : NotIn(r, written))
  /\ UNCHANGED <<run, world, clock, connOpen, url, attempt, delay,
                 outcomes, slept, data, k, written, report, fetched, exc,
                 unitFaulty, faultyUnits, startDate, ticks, log, dberrs>>

\* extract_and_write raises inside its try block (no forecast.forecastday,
\* or a subscript of the loop body fails for day k): logged, the rest of
\* the payload is dropped.
ExtractFail ==
  /\ pc = "extract"
  /\ \/ ~data.hasForecast
     \/ /\ k <= Len(data.days)
        /\ ~RowBuildable(data, k)
  /\ FinishUnit("failed")
  /\ partial' = partial \o written
  /\ UNCHANGED <<run, world, clock, connOpen, store, url, attempt, delay,
                 outcomes, slept, data, k, written, report, fetched, exc,
                 unitFaulty, faultyUnits, startDate, ticks, log, dberrs>>

\* Variant: insert_record without its except clause; the MySQL error reaches
\* extract_and_write's except and ends the payload.
ExtractWriteNoCatch ==
  /\ pc = "extract"
  /\ data.hasForecast
  /\ k <= Len(data.days)
  /\ RowBuildable(data, k)
  /\ LET row == BuildRow(data, k, Mode) IN
       \/ /\ store' = Execute(store, row)
          /\ report' = Report(RowCount(store, row))
          /\ written' = Append(written, row)
          /\ NoFault
          /\ UNCHANGED dberrs
          /\ IF k < Len(data.days)
             THEN /\ k' = k + 1
                  /\ UNCHANGED <<pc, results, pass, i, ci, today>>
             ELSE /\ k' = k
                  /\ FinishUnit("ok")
       \/ /\ FaultAllowed /\ MarkFault
          /\ report' = "error"
          /\ dberrs' = dberrs + 1
          /\ k' = k
          /\ FinishUnit("failed")
          /\ UNCHANGED <<store, written>>
  /\ UNCHANGED <<run, world, clock, connOpen, url, attempt, delay, outcomes,
                 slept, data, fetched, exc, startDate, ticks, log, partial>>

\* One iteration of extract_and_write's loop: the row is built and
\* insert_record executes and commits it, or catches mysql.connector.Error.
ExtractWrite ==
  /\ pc = "extract"
  /\ data.hasForecast
  /\ k <= Len(data.days)
  /\ RowBuildable(data, k)
  /\ LET row == BuildRow(data, k, Mode) IN
       \/ /\ store' = Execute(store, row)
          /\ report' = Report(RowCount(store, row))
          /\ written' = Append(written, row)
          /\ NoFault
          /\ UNCHANGED dberrs
       \/ /\ FaultAllowed /\ MarkFault
          /\ report' = "error"
          /\ dberrs' = dberrs + 1
          /\ UNCHANGED <<store, written>>
  /\ IF k < Len(data.days)
     THEN /\ k' = k + 1
          /\ UNCHANGED <<pc, results, pass, i, ci, today>>
     ELSE /\ k' = k
          /\ FinishUnit(IF Len(written') = Len(data.days) THEN "ok" ELSE "skipped")
  /\ UNCHANGED <<run, world, clock, connOpen, url, attempt, delay, outcomes,
                 slept, data, fetched, exc, startDate, ticks, log, partial>>

\* Variant: close_connection() also called at the end of run_forecast_etl
CloseConnectionAfterForecast ==
  /\ \/ /\ pc \in {"finally", "unwind"}
        /\ pc' = "exit"
     \/ /\ pc = "loop"
        /\ pass = "history"
        /\ i = 1
        /\ ci = 1
        /\ connOpen
        /\ pc' = pc
  /\ connOpen' = FALSE
  /\ UNCHANGED <<run, world, clock, store, pass, i, ci, today, url, attempt,
                 delay, outcomes, slept, data, k, written, report, fetched,
                 results, exc, unitFaulty, faultyUnits, startDate, ticks, log,
                 dberrs, partial>>

\* Variant: close_connection() called after the passes, without try/finally
CloseConnectionNoFinally ==
  /\ pc \in {"finally", "unwind"}
  /\ connOpen' = (pc = "unwind")
  /\ pc' = "exit"
  /\ UNCHANGED <<run, world, clock, store, pass, i, ci, today, url, attempt,
                 delay, outcomes, slept, data, k, written, report, fetched,
                 results, exc, unitFaulty, faultyUnits, startDate, ticks, log,
                 dberrs, partial>>

\* finally: self.close_connection(), on the normal path and while an
\* exception unwinds start().
CloseConnection ==
  /\ pc \in {"finally", "unwind"}
  /\ connOpen' = FALSE
  /\ pc' = "exit"
  /\ UNCHANGED <<run, world, clock, store, pass, i, ci, today, url, attempt,
                 delay, outcomes, slept, data, k, written, report, fetched,
                 results, exc, unitFaulty, faultyUnits, startDate, ticks, log,
                 dberrs, partial>>

\* State of a fresh process after WeatherExtractor(): connected, table
\* created if absent, nothing fetched yet.
Constructed ==
  /\ pc = "loop"
  /\ connOpen = TRUE
  /\ pass = "forecast"
  /\ i = 0
  /\ ci = 1
  /\ today = 0
  /\ url = build_forecast_url(Cities[1])
  /\ attempt = 0
  /\ delay = 0
  /\ outcomes = <<>>
  /\ slept = <<>>
  /\ data = NoneData
  /\ k = 0
  /\ written = <<>>
  /\ report = "none"
  /\ fetched = <<>>
  /\ results = <<>>
  /\ exc = "none"
  /\ unitFaulty = FALSE
  /\ log = <<>>
  /\ dberrs = 0
  /\ partial = <<>>

\* The scheduler starts the script again on the next day; the table is as
\* the first run left it (CREATE TABLE IF NOT EXISTS).
NewRun ==
  /\ pc = "exit"
  /\ run = "first"
  /\ run' = "second"
  /\ world' \in Worlds
  /\ pc' = "loop"
  /\ connOpen' = TRUE
  /\ pass' = "forecast"
  /\ i' = 0
  /\ ci' = 1
  /\ today' = 0
  /\ url' = build_forecast_url(Cities[1])
  /\ attempt' = 0
  /\ delay' = 0
  /\ outcomes' = <<>>
  /\ slept' = <<>>
  /\ data' = NoneData
  /\ k' = 0
  /\ written' = <<>>
  /\ report' = "none"
  /\ fetched' = <<>>
  /\ results' = <<>>
  /\ exc' = "none"
  /\ unitFaulty' = FALSE
  /\ log' = <<>>
  /\ dberrs' = 0
  /\ partial' = <<>>
  /\ clock' = clock + 1
  /\ startDate' = clock + 1
  /\ UNCHANGED <<store, faultyUnits, ticks>>

Init ==
  /\ run = "first"
  /\ world \in Worlds
  /\ clock = StartDate
  /\ startDate = StartDate
  /\ ticks = 0
  /\ store = <<>>
  /\ faultyUnits = 0
  /\ Constructed

Next ==
  \/ BeginUnit
  \/ AttemptOk
  \/ AttemptCaught
  \/ AttemptRaise
  \/ Dispatch
  \/ ExtractFail
  \/ ExtractWrite
  \/ CloseConnection
  \/ NewRun

Spec == Init /\ [][Next]_vars

\* Midnight passes while the run is in progress: date.today() and the
\* API's forecast window move on by one day.
Tick ==
  /\ pc \in {"loop", "fetch", "returned", "extract"}
  /\ ticks < MaxTicks
  /\ clock' = clock + 1
  /\ ticks' = ticks + 1
  /\ UNCHANGED <<pc, run, world, connOpen, store, pass, i, ci, today, url,
                 attempt, delay, outcomes, slept, data, k, written, report,
                 fetched, results, exc, unitFaulty, faultyUnits, startDate,
                 log, dberrs, partial>>

\* The steps of one run of the script.
RunStep ==
  \/ BeginUnit
  \/ AttemptOk
  \/ AttemptCaught
  \/ AttemptRaise
  \/ Dispatch
  \/ ExtractFail
  \/ ExtractWrite
  \/ CloseConnection

\* One run of the script started on any of the start dates, with the clock
\* running.
InitClock ==
  /\ run = "first"
  /\ world \in {w \in Worlds : w.aq = "co"}
  /\ clock \in StartDates
  /\ startDate = clock
  /\ ticks = 0
  /\ store = <<>>
  /\ faultyUnits = 0
  /\ Constructed

NextClock == RunStep \/ Tick

ClockSpec == InitClock /\ [][NextClock]_vars

\* One run of the script against any air-quality answer of the API.
InitAq ==
  /\ run = "first"
  /\ world \in AqWorlds
  /\ clock = StartDate
  /\ startDate = clock
  /\ ticks = 0
  /\ store = <<>>
  /\ faultyUnits = 0
  /\ Constructed

AqSpec == InitAq /\ [][RunStep]_vars

\* The process is never suspended for ever: every enabled step is taken.
FairSpec == Spec /\ WF_vars(Next)

\* ============================================================ properties
Last(s) == s[Len(s)]

AllIn(s, S) == \A n \in DOMAIN s : s[n] \in S

\* The fetch call of the current unit is in progress or has just ended.
InCall == outcomes # <<>>

\* The current unit has just ended (the next one has not begun).
UnitOver == pc \in {"loop", "finally"} /\ results # <<>>

\* The mode of the unit a URL belongs to.
UrlMode(u) == IF u.endpoint = "forecast.json" THEN "forecast" ELSE "history"

\* The days of a payload for which no row can be built.
BadDays(d) == {n \in DOMAIN d.days : ~(d.days[n].hasDay /\ d.hasLocation)}

\* C1: a fetch call all of whose attempts fail with a transport error makes
\* exactly 3 attempts and then returns None: the call goes on while fewer
\* than 3 attempts are made, is over after the 3rd, and raises nothing.
C1_RetryBound ==
  (InCall /\ AllIn(outcomes, TransportErrors)) =>
    /\ Len(outcomes) <= 3
    /\ pc \in {"fetch", "returned"}
    /\ (pc = "returned") <=> (Len(outcomes) = 3)
    /\ pc = "returned" => data.isNone
    /\ exc = "none"

C1_Witness ==
  /\ pc = "returned"
  /\ Len(outcomes) = 3
  /\ AllIn(outcomes, TransportErrors)
  /\ data.isNone

\* C2 (as claimed): when a fetch call all of whose attempts failed with a
\* transport error is over, it has slept exactly 2 then 4 time-units, none
\* after the 3rd attempt.
C2_DelaysBetweenAttempts ==
  (pc = "returned" /\ AllIn(outcomes, TransportErrors)) => slept = <<2, 4>>

\* C3 (as claimed): a fetch call whose first response has an error status
\* has failed with exactly one attempt and without any sleep.
C3_NoRetryOnStatus ==
  (InCall /\ outcomes[1] = "HTTPError") =>
    /\ Len(outcomes) = 1
    /\ slept = <<>>
    /\ pc # "fetch"

\* C3 (amended): a fetch call all of whose responses have an error status is
\* retried like a transport failure: it sleeps after every failed attempt,
\* makes exactly 3 attempts, then returns None and raises nothing.
C3_StatusRetried ==
  (InCall /\ AllIn(outcomes, {"HTTPError"})) =>
    /\ Len(outcomes) <= 3
    /\ Len(slept) = Len(outcomes)
    /\ pc \in {"fetch", "returned"}
    /\ (pc = "returned") <=> (Len(outcomes) = 3)
    /\ pc = "returned" => data.isNone
    /\ exc = "none"

C3_Witness ==
  /\ pc = "returned"
  /\ outcomes = <<"HTTPError", "HTTPError", "HTTPError">>
  /\ data.isNone

\* C4 (as claimed): a run ends without an escaped error, with every forecast
\* location and every history day x location fetched, and with the rows of
\* every unit that fetched and transformed well in the store.
C4_UnitIsolation ==
  pc = "exit" =>
    /\ exc = "none"
    /\ Len(fetched) = Len(Cities) * (1 + HistoryDays)
    /\ \A n \in DOMAIN results :
         results[n] = "ok" =>
           \A m \in DOMAIN DayDates(fetched[n], clock) :
             \E x \in DOMAIN store :
               Key(store[x]) = <<DayDates(fetched[n], clock)[m], fetched[n].q,
                                 Upper(UrlMode(fetched[n]))>>

\* The records either answer of the API can yield for the day the write
\* loop is at.
NextRows ==
  IF pc = "extract" /\ data.hasForecast /\ k <= Len(data.days)
  THEN {BuildRow(Payload(w, url, clock, [kind |-> "good", k |-> 0]), k, UrlMode(url)) :
          w \in Worlds}
  ELSE {}

\* C5: from every store the write loop meets and for every record it can be
\* handed there, a second upsert of the record leaves the store as the
\* first one left it and reports "updated".
C5_IdempotentUpsert ==
  \A r \in NextRows :
    LET once == Execute(store, r) IN
      /\ Execute(once, r) = once
      /\ Report(RowCount(once, r)) = "updated"

\* The second run has written again the very record the store held.
C5_Witness ==
  /\ run = "second"
  /\ written # <<>>
  /\ report = "updated"
  /\ \E n \in DOMAIN store : store[n] = Last(written)

\* C6: no two rows of the table share (date, location, type).
C6_KeyUnique ==
  \A a \in DOMAIN store :
    \A b \in (a + 1)..Len(store) : Key(store[a]) # Key(store[b])

\* A row was written over an existing key, after a run that had a failure.
C6_Witness ==
  /\ run = "second"
  /\ report = "updated"
  /\ written # <<>>
  /\ faultyUnits > 0
  /\ Len(store) > Len(Cities)

\* C7: a committed upsert on an existing key leaves exactly one row for the
\* key, with the record's min_temp, max_temp, humidity and air_quality and
\* with the country the row had before.
C7_ConflictMerge ==
  [][(pc = "extract" /\ Len(written') = Len(written) + 1) =>
       LET r == Last(written') IN
         Duplicates(store, r) # {} =>
           /\ Cardinality(Duplicates(store', r)) = 1
           /\ \A n \in Duplicates(store', r) :
                /\ store'[n].min_temp = r.min_temp
                /\ store'[n].max_temp = r.max_temp
                /\ store'[n].humidity = r.humidity
                /\ store'[n].air_quality = r.air_quality
                /\ \A m \in Duplicates(store, r) : store'[n].country = store[m].country]_vars

\* A record with other readings and another country was merged into a row.
C7_Witness ==
  /\ run = "second"
  /\ written # <<>>
  /\ report = "updated"
  /\ \E n \in DOMAIN store :
       /\ Key(store[n]) = Key(Last(written))
       /\ store[n].max_temp = Last(written).max_temp
       /\ store[n].country # Last(written).country

\* C8: an exception outside the except tuple ends the fetch call at the
\* attempt that raised it: no sleep follows it, no further attempt is made,
\* and it leaves the call as an exception, not as the None of exhaustion.
C8_NonTransientPropagates ==
  (InCall /\ Last(outcomes) \notin Retryable \cup {"ok"}) =>
    /\ pc \in {"unwind", "exit"}
    /\ exc = Last(outcomes)
    /\ Len(slept) = Len(outcomes) - 1
    /\ AllIn(slept, {2, 4})

C8_Witness ==
  /\ pc = "unwind"
  /\ outcomes = <<"JSONDecodeError">>
  /\ slept = <<>>
  /\ exc = "JSONDecodeError"

\* C9: whenever the connection is open, the run eventually reaches its end
\* with the connection closed.
C9_ConnectionReleased == connOpen ~> (pc = "exit" /\ ~connOpen)

\* A run ended by an escaping exception has closed the connection.
C9_Witness == pc = "exit" /\ exc # "none" /\ ~connOpen

\* C10 (as claimed): when a unit ends whose payload has an unexpected shape,
\* none of the payload's days has been written.
C10_WholePayloadFails ==
  (UnitOver /\ ~data.isNone /\ (~data.hasForecast \/ BadDays(data) # {})) =>
    written = <<>>

\* C10 (amended): when a unit ends whose payload has an unexpected shape, the
\* transform has failed and no day from the first offending one on has been
\* written; without a location block or a day list, no day at all.
C10_FailedPayloadTail ==
  (UnitOver /\ ~data.isNone /\ (~data.hasForecast \/ BadDays(data) # {})) =>
    /\ Last(results) = "failed"
    /\ \A x \in DOMAIN written :
         \E n \in DOMAIN data.days :
           /\ written[x] = BuildRow(data, n, UrlMode(url))
           /\ \A b \in BadDays(data) : n < b
    /\ (~data.hasForecast \/ ~data.hasLocation) => written = <<>>

\* The 2nd or 3rd day was malformed and the days before it were written.
C10_Witness ==
  /\ UnitOver
  /\ ~data.isNone
  /\ BadDays(data) # {}
  /\ Last(results) = "failed"
  /\ written # <<>>

\* C11: when the database rejects a record, insert_record catches the
\* error: the store is left as it was, nothing is raised, and the loop goes
\* on with the next day of the payload or, after the last day, with the
\* next unit; a run nothing escaped from has fetched every unit.
C11_PersistenceErrorSkipsRecord ==
  /\ [][(dberrs' = dberrs + 1) =>
          /\ store' = store
          /\ written' = written
          /\ exc' = "none"
          /\ report' = "error"
          /\ IF k < Len(data.days)
             THEN pc' = "extract" /\ k' = k + 1 /\ results' = results
             ELSE pc' \in {"loop", "finally"} /\ results' = Append(results, "skipped")]_vars
  /\ [](pc = "exit" /\ exc = "none" => Len(fetched) = Len(Cities) * (1 + HistoryDays))

\* The first day of a payload met a MySQL error, the other two were written
\* and the run went on to its end.
C11_Witness ==
  /\ pc = "exit"
  /\ exc = "none"
  /\ \E n \in DOMAIN results : results[n] = "skipped"
  /\ \E a \in DOMAIN store : \E b \in DOMAIN store :
       /\ store[a].location = store[b].location
       /\ store[a].type = "FORECAST" /\ store[b].type = "FORECAST"
       /\ store[a].date = Strftime(startDate + 1)
       /\ store[b].date = Strftime(startDate + 2)
       /\ \A c \in DOMAIN store :
            ~(store[c].location = store[a].location /\ store[c].type = "FORECAST"
              /\ store[c].date = Strftime(startDate))

\* The history URLs handed to fetch_data in this run, in order.
IsHistoryUrl(u) == u.endpoint = "history.json"

HistoryFetched == SelectSeq(fetched, IsHistoryUrl)

\* C12: with d the current date the history pass reads, the n-th history
\* fetch of a run asks for the day d - j and the location L[c], where
\* (j, c) is the n-th pair of 1..3 x L in day-major order: only d-1, d-2,
\* d-3, each pair once; a history pass that ends has fetched all the pairs;
\* and d = 2024-05-10 gives 2024-05-09, 2024-05-08, 2024-05-07.
C12_TrailingWindow ==
  LET h == HistoryFetched IN
    /\ Len(h) <= 3 * Len(Cities)
    /\ \A n \in DOMAIN h :
         LET j == ((n - 1) \div Len(Cities)) + 1
             c == ((n - 1) % Len(Cities)) + 1
         IN /\ h[n].q = Cities[c]
            /\ h[n].dt.m \in 1..12
            /\ DaysFromCivil(h[n].dt.y, h[n].dt.m, h[n].dt.d) = today - j
            /\ today = DaysFromCivil(2024, 5, 10) =>
                 h[n].dt = [y |-> 2024, m |-> 5, d |-> 10 - j]
    /\ (pc = "exit" /\ exc = "none") => Len(h) = 3 * Len(Cities)

\* A history pass read 2024-03-02 and ended with the request for 2024-02-28.
C12_Witness ==
  /\ pc = "exit"
  /\ exc = "none"
  /\ today = DaysFromCivil(2024, 3, 2)
  /\ Len(HistoryFetched) = 3 * Len(Cities)
  /\ Last(fetched).dt = [y |-> 2024, m |-> 2, d |-> 28]

\* C13: every record written from a payload without a current block, or
\* with a current block without air_quality, carries "N/A"; the transform
\* of such a payload, if well formed otherwise, writes every day; all the
\* records of one payload carry one air_quality value, the payload's co
\* when it has one.
C13_AirQualityFallback ==
  /\ \A x \in DOMAIN written :
       /\ data.aq \in {"nocurrent", "noaq"} => written[x].air_quality = "N/A"
       /\ data.aq = "co" => written[x].air_quality = data.co
       /\ \A y \in DOMAIN written : written[x].air_quality = written[y].air_quality
  /\ (/\ UnitOver
      /\ ~data.isNone
      /\ data.aq \in {"nocurrent", "noaq"}
      /\ data.hasForecast
      /\ BadDays(data) = {}
      /\ dberrs = 0) =>
       /\ Last(results) = "ok"
       /\ Len(written) = Len(data.days)

\* The three days of a forecast without air-quality data were written, each
\* with "N/A".
C13_Witness ==
  /\ UnitOver
  /\ Last(results) = "ok"
  /\ data.aq \in {"nocurrent", "noaq"}
  /\ Len(written) = 3
  /\ \A x \in DOMAIN written : written[x].air_quality = "N/A"

\* A unit has been handed to fetch_data and is not over yet.
UnitInProgress == pc \in {"fetch", "returned", "extract", "unwind"} \/ (pc = "exit" /\ exc # "none")

\* C14: the n-th fetch of a run is the n-th unit of the order "forecast of
\* each location in list order, then history of yesterday, of the day
\* before and of three days ago, each for every location in list order";
\* a unit is fetched only when every unit before it is over; and the store
\* changes only while the last unit fetched is in its write loop, by a
\* record of that unit.
C14_SequentialOrder ==
  /\ [](\A n \in DOMAIN fetched :
          IF n <= Len(Cities)
          THEN fetched[n] = build_forecast_url(Cities[n])
          ELSE LET m == n - Len(Cities)
                   j == ((m - 1) \div Len(Cities)) + 1
                   c == ((m - 1) % Len(Cities)) + 1
               IN /\ j <= 3
                  /\ fetched[n] = build_history_url(Cities[c], Strftime(today - j)))
  /\ [](Len(fetched) = Len(results) + (IF UnitInProgress THEN 1 ELSE 0))
  /\ [][/\ (fetched' # fetched /\ run' = run) =>
             /\ pc = "loop"
             /\ store' = store
             /\ Len(results) = Len(fetched)
        /\ (store' # store) =>
             /\ pc = "extract"
             /\ fetched' = fetched
             /\ url = Last(fetched)
             /\ Len(results) = Len(fetched) - 1
             /\ written' = Append(written, BuildRow(data, k, UrlMode(url)))
             /\ store' = Execute(store, Last(written'))]_vars

\* A run ended with all its units fetched, transformed and written.
C14_Witness ==
  /\ pc = "exit"
  /\ Len(fetched) = Len(Cities) * 4
  /\ AllIn(results, {"ok"})
  /\ Len(results) = Len(fetched)
  /\ Last(fetched) = build_history_url(Cities[Len(Cities)], Strftime(today - 3))
  /\ written # <<>>

\* C15 (as claimed): every history URL of a run asks for one of the three
\* days before the date at which the run started.
C15_DatesFromRunStart ==
  \A n \in DOMAIN HistoryFetched :
    HistoryFetched[n].dt = Strftime(startDate - (((n - 1) \div Len(Cities)) + 1))

\* C15 (amended): the date the history dates are computed from is read once,
\* when the history pass starts, i.e. after the forecast pass: it is the
\* current date of that moment, it does not change during the history pass
\* whatever the calendar does, and every history URL asks for one of the
\* three days before it.
C15_DatesFromHistoryPassStart ==
  /\ [][/\ (pass = "forecast" /\ pass' = "history") => today' = clock
        /\ (pass = "history" /\ pass' = "history") => today' = today]_vars
  /\ [](\A n \in DOMAIN HistoryFetched :
          HistoryFetched[n].dt = Strftime(today - (((n - 1) \div Len(Cities)) + 1)))
  /\ [](pass = "history" => (startDate <= today /\ today <= clock))

\* Midnight passed during the forecast pass: the history pass asked for the
\* day the run started on, and never for the day three days before it.
C15_Witness ==
  /\ pc = "exit"
  /\ exc = "none"
  /\ today = startDate + 1
  /\ Len(HistoryFetched) = 3 * Len(Cities)
  /\ HistoryFetched[1].dt = Strftime(startDate)
  /\ \A n \in DOMAIN HistoryFetched : HistoryFetched[n].dt # Strftime(startDate - 3)

\* Two rows have the same (date, location, type).
SameKey(a, b) == a.date = b.date /\ a.location = b.location /\ a.type = b.type

\* C16: in every step every row stays where it is and keeps its date,
\* location and type, so no row is ever removed; at most one row is
\* added; and a row changes only in the step that commits a record with
\* the row's own date, location and type, so a FORECAST write leaves every
\* HISTORY row as it was and vice versa.
C16_UpsertFrame ==
  [][/\ Len(store') >= Len(store)
     /\ Len(store') <= Len(store) + 1
     /\ \A n \in DOMAIN store :
          /\ SameKey(store'[n], store[n])
          /\ store'[n] # store[n] =>
               /\ pc = "extract"
               /\ Len(written') = Len(written) + 1
               /\ SameKey(store[n], Last(written'))
     /\ Len(store') = Len(store) + 1 =>
          /\ pc = "extract"
          /\ Len(written') = Len(written) + 1
          /\ Last(store') = Last(written')]_vars

\* A HISTORY record was committed for a date and location whose FORECAST
\* row, written a day earlier with other readings, is still as it was.
C16_Witness ==
  /\ run = "second"
  /\ written # <<>>
  /\ Last(written).type = "HISTORY"
  /\ \E a \in DOMAIN store : \E b \in DOMAIN store :
       /\ store[a] = Last(written)
       /\ store[b].type = "FORECAST"
       /\ store[b].date = store[a].date
       /\ store[b].location = store[a].location
       /\ store[b].max_temp # store[a].max_temp

\* C17: while a fetch call runs and when it is over, its log holds one
\* warning per failed attempt, in order, the n-th with the attempt number n,
\* the exception of attempt n and the delay slept after it; a call that
\* exhausted its attempts has logged, after the last warning, the terminal
\* error once; a call that returned a body, or that an exception left, has
\* logged no terminal error.
C17_RetryEvents ==
  (pc \in {"fetch", "returned", "unwind"}) =>
    /\ \A n \in DOMAIN slept :
         /\ n <= Len(log)
         /\ log[n] = [level |-> "warning", attempt |-> n, cause |-> outcomes[n],
                      delay |-> slept[n]]
    /\ IF pc = "returned" /\ Last(outcomes) # "ok"
       THEN /\ Len(log) = Len(slept) + 1
            /\ Last(log) = TerminalEvent
            /\ Last(log).level = "error"
       ELSE Len(log) = Len(slept)

\* A call exhausted its attempts: three warnings, then the terminal error.
C17_Witness ==
  /\ pc = "returned"
  /\ data.isNone
  /\ Len(log) = 4
  /\ log[1] = [level |-> "warning", attempt |-> 1, cause |-> "ReadTimeout", delay |-> 2]
  /\ log[3].attempt = 3
  /\ log[4] = TerminalEvent

\* C18: a fetch call that has returned a body did so at its k-th attempt,
\* k in 1..3, after k-1 attempts that raised an exception of the except
\* tuple and after sleeping exactly the first k-1 of the delays 2, 4; and
\* every fetch call, whatever happened before it, begins with attempt 1
\* and delay 2 and without having slept.
C18_SuccessAtAttemptK ==
  /\ (pc = "returned" /\ Last(outcomes) = "ok") =>
       /\ Len(outcomes) \in 1..3
       /\ \A n \in 1..(Len(outcomes) - 1) : outcomes[n] \in Retryable
       /\ slept = SubSeq(<<2, 4>>, 1, Len(outcomes) - 1)
       /\ ~data.isNone
  /\ (pc = "fetch" /\ outcomes = <<>>) =>
       /\ attempt = 1
       /\ delay = 2
       /\ slept = <<>>

\* A call other than the first of its run succeeded at its third attempt.
C18_Witness ==
  /\ pc = "returned"
  /\ results # <<>>
  /\ Len(outcomes) = 3
  /\ Last(outcomes) = "ok"
  /\ slept = <<2, 4>>
  /\ ~data.isNone

\* The store holds a row with the key and the readings of record r.
Stored(r) ==
  \E n \in DOMAIN store :
    /\ SameKey(store[n], r)
    /\ store[n].min_temp = r.min_temp
    /\ store[n].max_temp = r.max_temp
    /\ store[n].humidity = r.humidity
    /\ store[n].air_quality = r.air_quality

\* C19: when a unit ends whose payload has a malformed day b (1-based; the
\* location block and the day list are there, no MySQL error occurred), the
\* records written for the unit are those of the days 1..b-1, in list
\* order, and each is in the store; and every record committed by a unit
\* whose transform then failed is still in the store in every later state
\* of the run, its end included.
C19_PartialPayloadStored ==
  /\ (/\ UnitOver
      /\ ~data.isNone
      /\ data.hasForecast
      /\ data.hasLocation
      /\ BadDays(data) # {}
      /\ dberrs = 0) =>
       \A b \in BadDays(data) :
         /\ Len(written) = b - 1
         /\ \A n \in 1..(b - 1) :
              /\ written[n] = BuildRow(data, n, UrlMode(url))
              /\ Stored(written[n])
  /\ \A x \in DOMAIN partial : Stored(partial[x])

\* A run has ended in which the third day of a payload was malformed: the
\* first two days of that payload are in the store.
C19_Witness ==
  /\ pc = "exit"
  /\ exc = "none"
  /\ Len(partial) = 2
  /\ partial[1].date # partial[2].date
  /\ partial[1].location = partial[2].location
  /\ Stored(partial[1])
  /\ Stored(partial[2])

\* C20: the connection is open in every state in which a unit can be
\* fetched, transformed or written; it is closed exactly when the run has
\* ended; the step that closes it ends the run and writes nothing; and
\* once it is closed no step of that run follows (the only step is the
\* start of a new process with a connection of its own), so no record is
\* written and the connection is not closed again.
C20_ConnectionSpansRun ==
  /\ [](pc \in {"loop", "fetch", "returned", "extract", "finally", "unwind"} => connOpen)
  /\ [](pc = "exit" => ~connOpen)
  /\ [][/\ (connOpen /\ ~connOpen') =>
             /\ pc \in {"finally", "unwind"}
             /\ pc' = "exit"
             /\ store' = store
             /\ fetched' = fetched
        /\ (~connOpen) =>
             /\ run = "first"
             /\ run' = "second"
             /\ connOpen'
             /\ store' = store
        /\ (store' # store \/ fetched' # fetched \/ written' # written) =>
             (connOpen \/ run' # run)]_vars

\* A run that fetched every unit and wrote records has ended and released
\* its connection.
C20_Witness ==
  /\ pc = "exit"
  /\ ~connOpen
  /\ exc = "none"
  /\ Len(fetched) = Len(Cities) * 4
  /\ written # <<>>
  /\ store # <<>>

====
